---- MODULE Spec2Model ----
(***************************************************************************)
(* Model of the Netskope private-app export scripts.                       *)
(*                                                                         *)
(*   "v1"    src/scipt.py lines 1-113   (single fetch, extract_items,      *)
(*           harvest_hosts, row_from_app, main)                            *)
(*   "v2"    src/scipt.py lines 114-287 (fetch_all_pages, extract_apps,    *)
(*           to_host_set, normalize, row_from_app, export_to_csv, main)    *)
(*   "file"  src/extract.py             (json file -> extract_apps -> csv) *)
(*                                                                         *)
(* A JSON value is a pair <<tag, payload>>:                                 *)
(*   "null" (payload <<>>), "int" (an integer), "str" (a sequence of       *)
(*   one-character strings), "list" (a sequence of JSON values), "map"     *)
(*   (a sequence of entries <<key, value>> with distinct keys, in          *)
(*   insertion order, as a Python dict keeps them).                        *)
(***************************************************************************)
EXTENDS Integers, Sequences, FiniteSets, TLC

VARIABLES variant, args, server, pc, fetches, cursor, pages, raw_json,
          items, locals, rows, csv, exception

vars == <<variant, args, server, pc, fetches, cursor, pages, raw_json,
          items, locals, rows, csv, exception>>

(***************************************************************************)
(* Bounds of the model.                                                    *)
(***************************************************************************)
MaxPages == 3

MaxListLen == 2

(***************************************************************************)
(* Characters and Python's str primitives.                                 *)
(***************************************************************************)
\* The characters used, in ASCII order (Python compares str by code point).
Ascii ==
  << " ", "'", ",", ".", "0", "1", "2", "3", "4", "5", "6", "7", "8", "9", ":",
     "A", "B", "C", "D", "E", "F", "G", "H", "I", "J", "K", "L", "M",
     "N", "O", "P", "Q", "R", "S", "T", "U", "V", "W", "X", "Y", "Z",
     "[", "]", "_",
     "a", "b", "c", "d", "e", "f", "g", "h", "i", "j", "k", "l", "m",
     "n", "o", "p", "q", "r", "s", "t", "u", "v", "w", "x", "y", "z",
     "{", "}" >>

Ord(c) == CHOOSE i \in DOMAIN Ascii : Ascii[i] = c

IsUpper(c) == Ord(c) >= Ord("A") /\ Ord(c) <= Ord("Z")

\* str.lower() on one character
LowerChar(c) == IF IsUpper(c) THEN Ascii[Ord(c) + (Ord("a") - Ord("A"))] ELSE c

\* str.lower()
lower(s) == [i \in 1..Len(s) |-> LowerChar(s[i])]

IsSpace(c) == c \in {" ", "\t", "\n", "\r"}

RECURSIVE lstrip(_)
lstrip(s) == IF s # <<>> /\ IsSpace(Head(s)) THEN lstrip(Tail(s)) ELSE s

RECURSIVE rstrip(_)
rstrip(s) ==
  IF s # <<>> /\ IsSpace(s[Len(s)]) THEN rstrip(SubSeq(s, 1, Len(s) - 1)) ELSE s

\* str.strip()
strip(s) == rstrip(lstrip(s))

\* the first word of s (s starts with a non-space character)
RECURSIVE TakeWord(_)
TakeWord(s) ==
  IF s = <<>> \/ IsSpace(Head(s)) THEN <<>> ELSE <<Head(s)>> \o TakeWord(Tail(s))

\* str.split() without arguments: the maximal runs of non-whitespace
RECURSIVE split(_)
split(s) ==
  LET t == lstrip(s)
      w == TakeWord(t)
  IN  IF t = <<>> THEN <<>>
      ELSE <<w>> \o split(SubSeq(t, Len(w) + 1, Len(t)))

\* sep.join(parts)
RECURSIVE join(_, _)
join(sep, parts) ==
  IF parts = <<>> THEN <<>>
  ELSE IF Len(parts) = 1 THEN parts[1]
  ELSE parts[1] \o sep \o join(sep, Tail(parts))

\* a < b for Python str: lexicographic by code point
RECURSIVE StrLess(_, _)
StrLess(a, b) ==
  IF b = <<>> THEN FALSE
  ELSE IF a = <<>> THEN TRUE
  ELSE IF Head(a) # Head(b) THEN Ord(Head(a)) < Ord(Head(b))
  ELSE StrLess(Tail(a), Tail(b))

\* sorted(S) for a set of str
RECURSIVE sorted(_)
sorted(S) ==
  IF S = {} THEN <<>>
  ELSE LET m == CHOOSE x \in S : \A y \in S \ {x} : StrLess(x, y)
       IN  <<m>> \o sorted(S \ {m})

\* whether sequence needle occurs in sequence hay as a contiguous run
Contains(hay, needle) ==
  \E i \in 0..(Len(hay) - Len(needle)) :
     SubSeq(hay, i + 1, i + Len(needle)) = needle

\* str(n) for a small non-negative int
RECURSIVE Digits(_)
Digits(n) ==
  IF n < 10 THEN <<Ascii[Ord("0") + n]>>
  ELSE Digits(n \div 10) \o <<Ascii[Ord("0") + (n % 10)]>>

(***************************************************************************)
(* JSON values and Python's dict, truthiness and str().                    *)
(***************************************************************************)
Null == <<"null", <<>>>>

Num(n) == <<"int", n>>

Str(s) == <<"str", s>>

List(xs) == <<"list", xs>>

Map(es) == <<"map", es>>

IsNull(x) == x[1] = "null"

IsInt(x) == x[1] = "int"

IsStr(x) == x[1] = "str"

IsList(x) == x[1] = "list"

IsDict(x) == x[1] = "map"

Range(q) == {q[i] : i \in DOMAIN q}

\* k in d, for a dict d
HasKey(d, k) == \E i \in DOMAIN d[2] : d[2][i][1] = k

\* d[k], for a dict d holding k
Item(d, k) == d[2][CHOOSE i \in DOMAIN d[2] : d[2][i][1] = k][2]

\* d.get(k, default)
GetOr(d, k, default) == IF HasKey(d, k) THEN Item(d, k) ELSE default

\* d.get(k)
Get(d, k) == GetOr(d, k, Null)

\* list(d.values())
Values(d) == [i \in DOMAIN d[2] |-> d[2][i][2]]

\* bool(x)
Truthy(x) ==
  CASE IsNull(x) -> FALSE
    [] IsInt(x) -> x[2] # 0
    [] OTHER -> x[2] # <<>>

\* the characters of the keys the scripts probe with `k in app`, and of the
\* keys of the modelled payloads
KeyChars(k) ==
  CASE k = "name" -> <<"n", "a", "m", "e">>
    [] k = "app_name" -> <<"a", "p", "p", "_", "n", "a", "m", "e">>
    [] k = "application" -> <<"a", "p", "p", "l", "i", "c", "a", "t", "i", "o", "n">>
    [] k = "application_name" ->
         <<"a", "p", "p", "l", "i", "c", "a", "t", "i", "o", "n", "_", "n", "a", "m", "e">>
    [] k = "display_name" ->
         <<"d", "i", "s", "p", "l", "a", "y", "_", "n", "a", "m", "e">>
    [] k = "label" -> <<"l", "a", "b", "e", "l">>
    [] k = "id" -> <<"i", "d">>
    [] k = "app_id" -> <<"a", "p", "p", "_", "i", "d">>
    [] k = "uuid" -> <<"u", "u", "i", "d">>
    [] k = "guid" -> <<"g", "u", "i", "d">>
    [] k = "host" -> <<"h", "o", "s", "t">>
    [] k = "fqdn" -> <<"f", "q", "d", "n">>
    [] k = "destinations" ->
         <<"d", "e", "s", "t", "i", "n", "a", "t", "i", "o", "n", "s">>
    [] k = "data" -> <<"d", "a", "t", "a">>
    [] k = "items" -> <<"i", "t", "e", "m", "s">>
    [] k = "result" -> <<"r", "e", "s", "u", "l", "t">>
    [] k = "private_apps" ->
         <<"p", "r", "i", "v", "a", "t", "e", "_", "a", "p", "p", "s">>
    [] k = "applications" ->
         <<"a", "p", "p", "l", "i", "c", "a", "t", "i", "o", "n", "s">>
    [] k = "meta" -> <<"m", "e", "t", "a">>
    [] k = "next" -> <<"n", "e", "x", "t">>
    [] k = "x" -> <<"x">>
    [] k = "y" -> <<"y">>

\* repr(x)
RECURSIVE PyRepr(_)
PyRepr(x) ==
  CASE IsNull(x) -> <<"N", "o", "n", "e">>
    [] IsInt(x) -> Digits(x[2])
    [] IsStr(x) -> <<"'">> \o x[2] \o <<"'">>
    [] IsList(x) ->
         <<"[">> \o join(<<",", " ">>, [i \in DOMAIN x[2] |-> PyRepr(x[2][i])]) \o <<"]">>
    [] IsDict(x) ->
         <<"{">>
         \o join(<<",", " ">>,
                 [i \in DOMAIN x[2] |->
                    <<"'">> \o KeyChars(x[2][i][1]) \o <<"'", ":", " ">> \o PyRepr(x[2][i][2])])
         \o <<"}">>

\* str(x)
PyStr(x) == IF IsStr(x) THEN x[2] ELSE PyRepr(x)

\* `k in app` for any JSON value app; raising (None, int) is "error"
In(k, app) ==
  CASE IsDict(app) -> IF HasKey(app, k) THEN "yes" ELSE "no"
    [] IsStr(app) -> IF Contains(app[2], KeyChars(k)) THEN "yes" ELSE "no"
    [] IsList(app) -> IF Str(KeyChars(k)) \in Range(app[2]) THEN "yes" ELSE "no"
    [] OTHER -> "error"

\* the first index i with tests[i], 0 when there is none
\* (`for k in keys: if test(k): ...; break`)
FirstMatch(tests) ==
  LET hits == {i \in DOMAIN tests : tests[i]}
  IN  IF hits = {} THEN 0 ELSE CHOOSE i \in hits : \A j \in hits : i <= j

\* the concatenation of a sequence of sequences (list.extend in a loop)
RECURSIVE Concat(_)
Concat(qs) == IF qs = <<>> THEN <<>> ELSE Head(qs) \o Concat(Tail(qs))

(***************************************************************************)
(* v1: src/scipt.py lines 1-113                                            *)
(***************************************************************************)
\* `isinstance(v, list) and v and isinstance(v[0], dict)`
IsListOfDicts(v) == IsList(v) /\ v[2] # <<>> /\ IsDict(v[2][1])

extract_items_keys == <<"data", "items", "result", "private_apps", "applications">>

extract_items(payload) ==
  IF IsList(payload) THEN payload[2]
  ELSE IF IsDict(payload) THEN
    LET k == FirstMatch([n \in DOMAIN extract_items_keys |->
                           IsList(Get(payload, extract_items_keys[n]))])
        vals == Values(payload)
        f == FirstMatch([i \in DOMAIN vals |-> IsListOfDicts(vals[i])])
    IN  IF k # 0 THEN Get(payload, extract_items_keys[k])[2]
        ELSE IF f # 0 THEN vals[f][2]
        ELSE <<>>
  ELSE <<>>

harvest_leaf_keys == <<"fqdn", "hostname", "host", "domain", "destination", "destination_fqdn">>

harvest_container_keys == <<"destinations", "resources", "domains">>

\* mutant of walk_children: the catch-all descends into containers only
walk_children_m(v) == {vv \in Range(Values(v)) : IsDict(vv) \/ IsList(vv)}

\* the catch-all of walk: `for vv in v.values(): if isinstance(vv, (dict, list, str))`
walk_children(v) == {vv \in Range(Values(v)) : IsDict(vv) \/ IsList(vv) \/ IsStr(vv)}

\* walk(v) of harvest_hosts: the strings it adds to `out`
RECURSIVE walk(_)
walk(v) ==
  CASE IsNull(v) -> {}
    [] IsStr(v) -> IF strip(v[2]) # <<>> THEN {strip(v[2])} ELSE {}
    [] IsList(v) -> UNION {walk(x) : x \in Range(v[2])}
    [] IsDict(v) ->
         UNION {walk(Item(v, k)) : k \in {kk \in Range(harvest_leaf_keys) : HasKey(v, kk)}}
         \cup UNION {walk(Item(v, k)) :
                       k \in {kk \in Range(harvest_container_keys) : HasKey(v, kk)}}
         \cup UNION {walk(vv) : vv \in walk_children(v)}
    [] OTHER -> {}

harvest_hosts(obj) == walk(obj)

name_keys_v1 == <<"app_name", "name", "application_name", "display_name", "label">>

id_keys == <<"id", "app_id", "uuid", "guid">>

\* `" ".join(h.split()).strip()`
join_split(h) == strip(join(<<" ">>, split(h)))

\* row_from_app of v1 raises AttributeError at app.get(k) unless app is a dict
row_from_app_v1_raises(app) == ~IsDict(app)

row_from_app_v1_name(app) ==
  LET k == FirstMatch([n \in DOMAIN name_keys_v1 |->
                         /\ IsStr(Get(app, name_keys_v1[n]))
                         /\ strip(Get(app, name_keys_v1[n])[2]) # <<>>])
  IN  IF k = 0 THEN <<>> ELSE join_split(Item(app, name_keys_v1[k])[2])

row_from_app_v1_id(app) ==
  LET k == FirstMatch([n \in DOMAIN id_keys |->
                         HasKey(app, id_keys[n]) /\ ~IsNull(Item(app, id_keys[n]))])
  IN  IF k = 0 THEN <<>> ELSE PyStr(Item(app, id_keys[k]))

row_from_app_v1_hosts(app) ==
  sorted({join_split(h) : h \in {hh \in harvest_hosts(app) : hh # <<>>}})

row_from_app_v1(app) ==
  [name |-> row_from_app_v1_name(app),
   hosts |-> join(<<",", " ">>, row_from_app_v1_hosts(app)),
   id |-> row_from_app_v1_id(app)]

(***************************************************************************)
(* v2: src/scipt.py lines 114-287                                          *)
(***************************************************************************)
extract_apps_keys == <<"data", "items", "result", "private_apps", "applications">>

\* `arr` of extract_apps for one page (None and [] both add nothing)
extract_apps_arr(page) ==
  IF IsList(page) THEN page[2]
  ELSE IF IsDict(page) THEN
    LET k == FirstMatch([n \in DOMAIN extract_apps_keys |->
                           /\ HasKey(page, extract_apps_keys[n])
                           /\ IsList(Item(page, extract_apps_keys[n]))])
        vals == Values(page)
        f == FirstMatch([i \in DOMAIN vals |-> IsListOfDicts(vals[i])])
    IN  IF k # 0 THEN Item(page, extract_apps_keys[k])[2]
        ELSE IF f # 0 THEN vals[f][2]
        ELSE <<>>
  ELSE <<>>

extract_apps(data_pages) ==
  Concat([i \in DOMAIN data_pages |-> extract_apps_arr(data_pages[i])])

to_host_set_leaf_keys == <<"fqdn", "hostname", "host", "domain", "destination", "destination_fqdn">>

to_host_set_container_keys == <<"destinations", "resources", "connectors", "apps", "domains">>

\* the catch-all of harvest: `for vv in v.values(): if isinstance(vv, (dict, list, str))`
harvest_children(v) == {vv \in Range(Values(v)) : IsDict(vv) \/ IsList(vv) \/ IsStr(vv)}

\* harvest(v) of to_host_set: the strings it adds to `out`
RECURSIVE harvest(_)
harvest(v) ==
  CASE IsNull(v) -> {}
    [] IsStr(v) -> IF strip(v[2]) # <<>> THEN {strip(v[2])} ELSE {}
    [] IsList(v) -> UNION {harvest(x) : x \in Range(v[2])}
    [] IsDict(v) ->
         UNION {harvest(Item(v, k)) :
                  k \in {kk \in Range(to_host_set_leaf_keys) : HasKey(v, kk)}}
         \cup UNION {harvest(Item(v, k)) :
                       k \in {kk \in Range(to_host_set_container_keys) : HasKey(v, kk)}}
         \cup UNION {harvest(vv) : vv \in harvest_children(v)}
    [] OTHER -> {}

to_host_set(obj) == harvest(obj)

\* mutant of normalize: trims the ends, keeps inner runs of whitespace
normalize_m(s) == strip(s)

normalize(s) == strip(join(<<" ">>, split(s)))

name_keys_v2 == <<"name", "app_name", "application", "application_name", "display_name", "label">>

\* row_from_app of v2 raises TypeError when `k in app` does (None, int) or
\* when it holds and app[k] does (a str or a list holding the key)
row_from_app_raises(app) ==
  ~IsDict(app)
  /\ \E k \in Range(name_keys_v2) \cup Range(id_keys) : In(k, app) \in {"yes", "error"}

row_from_app_name(app) ==
  LET k == FirstMatch([n \in DOMAIN name_keys_v2 |->
                         /\ In(name_keys_v2[n], app) = "yes"
                         /\ IsStr(Item(app, name_keys_v2[n]))
                         /\ strip(Item(app, name_keys_v2[n])[2]) # <<>>])
  IN  IF k = 0 THEN <<>> ELSE normalize(Item(app, name_keys_v2[k])[2])

row_from_app_id(app) ==
  LET k == FirstMatch([n \in DOMAIN id_keys |->
                         /\ In(id_keys[n], app) = "yes"
                         /\ (IsStr(Item(app, id_keys[n])) \/ IsInt(Item(app, id_keys[n])))])
  IN  IF k = 0 THEN <<>> ELSE PyStr(Item(app, id_keys[k]))

hosts_list(app) == sorted({normalize(h) : h \in {hh \in to_host_set(app) : hh # <<>>}})

row_from_app(app) ==
  [name |-> row_from_app_name(app),
   hosts |-> join(<<",", " ">>, hosts_list(app)),
   id |-> row_from_app_id(app)]

\* df.sort_values(by="Application Name", key=str.lower, kind="mergesort"):
\* ascending by lower-cased name, equal names in their original order
RECURSIVE sort_values(_)
sort_values(rs) ==
  IF rs = <<>> THEN <<>>
  ELSE LET init == sort_values(SubSeq(rs, 1, Len(rs) - 1))
           r == rs[Len(rs)]
           n == Cardinality({i \in DOMAIN init :
                               ~StrLess(lower(r.name), lower(init[i].name))})
       IN  SubSeq(init, 1, n) \o <<r>> \o SubSeq(init, n + 1, Len(init))

export_to_csv(rs) == sort_values(rs)

(***************************************************************************)
(* file: src/extract.py                                                    *)
(***************************************************************************)
file_keys == <<"data", "items", "applications", "private_apps", "result">>

\* `items` of extract_apps
file_items(data) ==
  IF IsList(data) THEN data[2]
  ELSE IF IsDict(data) THEN
    LET k == FirstMatch([n \in DOMAIN file_keys |->
                           HasKey(data, file_keys[n]) /\ IsList(Item(data, file_keys[n]))])
        vals == Values(data)
    IN  IF k # 0 THEN Item(data, file_keys[k])[2]
        ELSE Concat([i \in DOMAIN vals |-> IF IsList(vals[i]) THEN vals[i][2] ELSE <<>>])
  ELSE <<>>

\* the objects the extraction loop keeps: `if not isinstance(obj, dict): continue`
file_objects(data) == SelectSeq(file_items(data), IsDict)

\* `not host and "destinations" in obj` with a non-empty list under it
file_uses_dests(obj) ==
  /\ ~Truthy(GetOr(obj, "host", Str(<<>>)))
  /\ HasKey(obj, "destinations")
  /\ IsList(Item(obj, "destinations"))
  /\ Item(obj, "destinations")[2] # <<>>

\* dests[0].get raises AttributeError unless dests[0] is a dict
file_row_raises(obj) == file_uses_dests(obj) /\ ~IsDict(Item(obj, "destinations")[2][1])

file_host(obj) ==
  IF file_uses_dests(obj)
  THEN LET d == Item(obj, "destinations")[2][1]
       IN  IF Truthy(GetOr(d, "host", Str(<<>>))) THEN GetOr(d, "host", Str(<<>>))
           ELSE GetOr(d, "fqdn", Str(<<>>))
  ELSE GetOr(obj, "host", Str(<<>>))

file_row(obj) ==
  [app_name |-> PyStr(GetOr(obj, "app_name", Str(<<>>))), host |-> PyStr(file_host(obj))]

(***************************************************************************)
(* Fetching: fetch and the pagination loop of fetch_all_pages.             *)
(***************************************************************************)
\* mutant of raise_for_status: only a 5xx status raises
raise_for_status_m(status) == status >= 500 /\ status < 600

\* r.raise_for_status() raises HTTPError for a 4xx or 5xx status
raise_for_status(status) == status >= 400 /\ status < 600

\* the walk of one page along next_cursor_path; None when a step is not a
\* mapping or lacks the key
RECURSIVE next_cursor(_, _)
next_cursor(nxt, path) ==
  IF path = <<>> THEN nxt
  ELSE IF IsDict(nxt) /\ HasKey(nxt, Head(path)) THEN next_cursor(Item(nxt, Head(path)), Tail(path))
  ELSE Null

\* mutant of stop_paging: only a missing cursor stops, an empty one does not
stop_paging_m(nxt) == IsNull(nxt)

\* `if not nxt: break`
stop_paging(nxt) == ~Truthy(nxt)

\* `if not pagination_param or not next_cursor_path: break`
pagination_unset == ~args.cursor_param \/ args.next_cursor_path = <<>>

\* the response to the n-th request: the server's n-th page, its last page
\* again once they are used up
Response(n) == server[IF n <= Len(server) THEN n ELSE Len(server)]

(***************************************************************************)
(* Inputs.                                                                 *)
(***************************************************************************)
E(k, v) == <<k, v>>

\* sequences over S of length 0..n
RECURSIVE SeqsUpTo(_, _)
SeqsUpTo(S, n) ==
  IF n = 0 THEN {<<>>}
  ELSE LET shorter == SeqsUpTo(S, n - 1)
       IN  shorter \cup {Append(q, x) : q \in shorter, x \in S}

\* dicts of one or two entries: keys from K, first value from V, second from W
Dicts(K, V, W) ==
  {Map(<<E(k, v)>>) : k \in K, v \in V}
  \cup {Map(<<E(k[1], v), E(k[2], w)>>) : k \in {kk \in K \X K : kk[1] # kk[2]}, v \in V, w \in W}

AppOne == <<"A", "p", "p", " ", "O", "n", "e">>

AppTwo == <<"A", "p", "p", " ", "T", "w", "o">>

H1 == <<"h", "1", ".", "e", "x", "a", "m", "p", "l", "e", ".", "c", "o", "m">>

H2 == <<"h", "2", ".", "e", "x", "a", "m", "p", "l", "e", ".", "c", "o", "m">>

\* the page of the end-to-end example
EndToEndPage ==
  Map(<<E("data",
          List(<<Map(<<E("app_name", Str(AppOne)),
                       E("destinations", List(<<Map(<<E("fqdn", Str(H1))>>)>>))>>),
                 Map(<<E("name", Str(AppTwo)), E("host", Str(H2))>>)>>))>>)

RecA == Map(<<E("name", Str(<<"a">>))>>)

RecB == Map(<<E("app_name", Str(<<"B">>)), E("host", Str(<<"b">>))>>)

\* top-level sequences, with elements that are not mappings
ListElems ==
  {Null, Num(1), Str(<<"a">>), Str(<<"i", "d">>), List(<<>>),
   List(<<Str(<<"n", "a", "m", "e">>)>>), Map(<<>>), RecA,
   Map(<<E("destinations", List(<<Str(<<"a">>)>>))>>)}

ListPages == {List(q) : q \in SeqsUpTo(ListElems, MaxListLen)}

\* mappings with known container keys and other keys
ContainerKeys == {"data", "items", "result", "private_apps", "applications", "x", "y"}

ContainerVals ==
  {List(<<>>), List(<<RecA>>), List(<<RecB>>), List(<<Num(1), RecA>>), Str(<<"a">>)}

MapPages == {Map(<<>>)} \cup Dicts(ContainerKeys, ContainerVals, ContainerVals)

\* records with host strings at known keys, in containers and elsewhere
HostStrs ==
  {<<"a">>, <<" ", "a", " ">>, <<"B">>, <<>>, <<" ">>, <<"a", " ", " ", "B">>}

Leaves == {Null, Num(7)} \cup {Str(h) : h \in HostStrs}

Nested ==
  Leaves
  \cup {List(<<a>>) : a \in Leaves}
  \cup {List(<<Str(a), Str(b)>>) : a, b \in {<<"a">>, <<"B">>, <<" ", "a", " ">>}}
  \cup {Map(<<E(k, a)>>) : k \in {"fqdn", "x"}, a \in Leaves}
  \cup {List(<<Map(<<E(k, a)>>)>>) : k \in {"fqdn", "x"}, a \in Leaves}

HostRecords == Dicts({"host", "destinations", "x"}, Nested, Leaves)

HostPages == {List(<<r>>) : r \in HostRecords}

\* records with name and id candidates
NameVals ==
  {Str(<<"a">>), Str(<<" ", "B", " ", " ", "a", " ">>), Str(<<" ">>), Null, Num(7)}

NameRecords == Dicts({"app_name", "name", "application", "label", "id"}, NameVals, NameVals)

NamePages == {Map(<<E("data", List(<<r>>))>>) : r \in NameRecords}

Pages == {EndToEndPage} \cup ListPages \cup MapPages \cup HostPages \cup NamePages

OK(page) == [status |-> 200, body |-> page]

\* what a page may hold at the cursor path meta.next
CursorShapes ==
  {<<>>,
   <<E("meta", Map(<<>>))>>,
   <<E("meta", Str(<<"c">>))>>,
   <<E("meta", Map(<<E("next", Null)>>))>>,
   <<E("meta", Map(<<E("next", Str(<<>>))>>))>>,
   <<E("meta", Map(<<E("next", Num(0))>>))>>,
   <<E("meta", Map(<<E("next", Num(2))>>))>>,
   <<E("meta", Map(<<E("next", Str(<<"c">>))>>))>>}

\* the i-th page of a paginated listing: one record, numbered i
CursorPage(i, shape) == Map(<<E("data", List(<<Map(<<E("id", Num(i))>>)>>))>> \o shape)

Failures == {[status |-> 404, body |-> Null], [status |-> 500, body |-> Null]}

\* the servers of n responses
RECURSIVE ServersOfLen(_)
ServersOfLen(n) ==
  IF n = 0 THEN {<<>>}
  ELSE {Append(q, r) : q \in ServersOfLen(n - 1),
                       r \in {OK(CursorPage(n, sh)) : sh \in CursorShapes} \cup Failures}

PagedServers == UNION {ServersOfLen(n) : n \in 1..MaxPages}

SingleServers == {<<OK(p)>> : p \in Pages} \cup {<<f>> : f \in Failures}

NoPaging == [raw_json |-> TRUE, cursor_param |-> FALSE, next_cursor_path |-> <<>>]

Args == [raw_json : BOOLEAN, cursor_param : BOOLEAN, next_cursor_path : {<<>>, <<"meta", "next">>}]

(***************************************************************************)
(* The scripts as a state machine.                                         *)
(***************************************************************************)
TypeOK ==
  /\ variant \in {"v1", "v2", "file"}
  /\ pc \in {"start", "fetched", "located", "projected", "done", "error"}
  /\ fetches \in 0..(MaxPages + 1)
  /\ exception \in {"", "HTTPError", "AttributeError", "TypeError"}

Init ==
  /\ variant \in {"v1", "v2", "file"}
  /\ \/ /\ server \in SingleServers
        /\ args = NoPaging
        /\ variant = "file" => server[1].status = 200
     \/ /\ variant = "v2"
        /\ server \in PagedServers
        /\ args \in Args
  /\ pc = "start"
  /\ fetches = 0
  /\ cursor = Null
  /\ pages = <<>>
  /\ raw_json = <<>>
  /\ items = <<>>
  /\ locals = <<>>
  /\ rows = <<>>
  /\ csv = <<>>
  /\ exception = ""

\* v1 main, lines 95-96: payload = fetch(url, headers)
Fetch ==
  /\ variant = "v1"
  /\ pc = "start"
  /\ fetches' = fetches + 1
  /\ IF raise_for_status(Response(1).status)
     THEN /\ exception' = "HTTPError"
          /\ pc' = "error"
          /\ pages' = pages
     ELSE /\ pages' = <<Response(1).body>>
          /\ pc' = "fetched"
          /\ exception' = exception
  /\ UNCHANGED <<variant, args, server, cursor, raw_json, items, locals, rows, csv>>

\* v2 fetch_all_pages: one turn of its loop
FetchPage ==
  /\ variant = "v2"
  /\ pc = "start"
  /\ fetches <= MaxPages
  /\ fetches' = fetches + 1
  /\ LET r == Response(fetches + 1)
         nxt == next_cursor(r.body, args.next_cursor_path)
     IN  IF raise_for_status(r.status)
         THEN /\ exception' = "HTTPError"
              /\ pc' = "error"
              /\ UNCHANGED <<pages, cursor>>
         ELSE /\ pages' = Append(pages, r.body)
              /\ exception' = exception
              /\ IF pagination_unset \/ stop_paging(nxt)
                 THEN pc' = "fetched" /\ cursor' = cursor
                 ELSE pc' = "start" /\ cursor' = Str(PyStr(nxt))
  /\ UNCHANGED <<variant, args, server, raw_json, items, locals, rows, csv>>

\* extract.py main, lines 58-59: data = json.load(f)
LoadJson ==
  /\ variant = "file"
  /\ pc = "start"
  /\ pages' = <<Response(1).body>>
  /\ pc' = "fetched"
  /\ UNCHANGED <<variant, args, server, fetches, cursor, raw_json, items, locals, rows, csv,
                 exception>>

\* v1 main, lines 98-104: the raw JSON file, then items = extract_items(payload)
Locate ==
  /\ variant = "v1"
  /\ pc = "fetched"
  /\ raw_json' = IF args.raw_json THEN <<pages[1]>> ELSE raw_json
  /\ items' = extract_items(pages[1])
  /\ pc' = "located"
  /\ UNCHANGED <<variant, args, server, fetches, cursor, pages, locals, rows, csv, exception>>

\* v2 main, lines 266-276: the raw JSON file, then apps = extract_apps(pages)
LocatePages ==
  /\ variant = "v2"
  /\ pc = "fetched"
  /\ raw_json' = IF args.raw_json
                 THEN <<IF Len(pages) = 1 THEN pages[1] ELSE List(pages)>>
                 ELSE raw_json
  /\ items' = extract_apps(pages)
  /\ pc' = "located"
  /\ UNCHANGED <<variant, args, server, fetches, cursor, pages, locals, rows, csv, exception>>

\* v1 main, line 106: rows = [row_from_app(app) for app in items]
Project ==
  /\ variant = "v1"
  /\ pc = "located"
  /\ IF \E i \in DOMAIN items : row_from_app_v1_raises(items[i])
     THEN /\ exception' = "AttributeError"
          /\ pc' = "error"
          /\ UNCHANGED <<locals, rows>>
     ELSE /\ locals' = [i \in DOMAIN items |->
                          [hosts |-> harvest_hosts(items[i]),
                           hosts_list |-> row_from_app_v1_hosts(items[i])]]
          /\ rows' = [i \in DOMAIN items |-> row_from_app_v1(items[i])]
          /\ pc' = "projected"
          /\ exception' = exception
  /\ UNCHANGED <<variant, args, server, fetches, cursor, pages, raw_json, items, csv>>

\* v2 main, line 278: rows = [row_from_app(a) for a in apps]
ProjectApps ==
  /\ variant = "v2"
  /\ pc = "located"
  /\ IF \E i \in DOMAIN items : row_from_app_raises(items[i])
     THEN /\ exception' = "TypeError"
          /\ pc' = "error"
          /\ UNCHANGED <<locals, rows>>
     ELSE /\ locals' = [i \in DOMAIN items |->
                          [hosts |-> to_host_set(items[i]),
                           hosts_list |-> hosts_list(items[i])]]
          /\ rows' = [i \in DOMAIN items |-> row_from_app(items[i])]
          /\ pc' = "projected"
          /\ exception' = exception
  /\ UNCHANGED <<variant, args, server, fetches, cursor, pages, raw_json, items, csv>>

\* extract.py main, line 61: rows = extract_apps(data)
ExtractApps ==
  /\ variant = "file"
  /\ pc = "fetched"
  /\ items' = file_items(pages[1])
  /\ LET objs == file_objects(pages[1])
     IN  IF \E i \in DOMAIN objs : file_row_raises(objs[i])
         THEN /\ exception' = "AttributeError"
              /\ pc' = "error"
              /\ rows' = rows
         ELSE /\ rows' = [i \in DOMAIN objs |-> file_row(objs[i])]
              /\ pc' = "projected"
              /\ exception' = exception
  /\ UNCHANGED <<variant, args, server, fetches, cursor, pages, raw_json, locals, csv>>

\* v1 main, lines 107-109, and v2 export_to_csv: sorted by name, then written
Export ==
  /\ variant \in {"v1", "v2"}
  /\ pc = "projected"
  /\ csv' = <<export_to_csv(rows)>>
  /\ pc' = "done"
  /\ UNCHANGED <<variant, args, server, fetches, cursor, pages, raw_json, items, locals,
                 rows, exception>>

\* extract.py main, lines 64-67: the rows written as they are
WriteCsv ==
  /\ variant = "file"
  /\ pc = "projected"
  /\ csv' = <<rows>>
  /\ pc' = "done"
  /\ UNCHANGED <<variant, args, server, fetches, cursor, pages, raw_json, items, locals,
                 rows, exception>>

Next ==
  \/ Fetch
  \/ FetchPage
  \/ LoadJson
  \/ Locate
  \/ LocatePages
  \/ Project
  \/ ProjectApps
  \/ ExtractApps
  \/ Export
  \/ WriteCsv

Spec == Init /\ [][Next]_vars

(***************************************************************************)
(* Properties.                                                             *)
(***************************************************************************)
\* the record locator has run
Located ==
  pc \in {"located", "projected", "done"}
  \/ (pc = "error" /\ exception \in {"AttributeError", "TypeError"})

\* every record was projected
Projected == pc \in {"projected", "done"}

\* every string value of a JSON tree, whatever key or position holds it
RECURSIVE StringValues(_)
StringValues(x) ==
  CASE IsStr(x) -> {x[2]}
    [] IsList(x) -> UNION {StringValues(y) : y \in Range(x[2])}
    [] IsDict(x) -> UNION {StringValues(e[2]) : e \in Range(x[2])}
    [] OTHER -> {}

Trimmed(S) == {strip(s) : s \in S} \ {<<>>}

\* a JSON tree with every mapping's entries and every sequence's elements reversed
RECURSIVE Reversed(_)
Reversed(x) ==
  CASE IsList(x) -> List([i \in 1..Len(x[2]) |-> Reversed(x[2][Len(x[2]) + 1 - i])])
    [] IsDict(x) ->
         Map([i \in 1..Len(x[2]) |->
                E(x[2][Len(x[2]) + 1 - i][1], Reversed(x[2][Len(x[2]) + 1 - i][2]))])
    [] OTHER -> x

\* no leading, trailing or repeated whitespace, and no whitespace but " "
IsNormalized(s) ==
  /\ s # <<>>
  /\ ~IsSpace(s[1])
  /\ ~IsSpace(s[Len(s)])
  /\ \A i \in 1..(Len(s) - 1) : ~(IsSpace(s[i]) /\ IsSpace(s[i + 1]))
  /\ \A i \in DOMAIN s : IsSpace(s[i]) => s[i] = " "

\* the list of hosts the variant's row projector builds for a record
HostsOf(app) == IF variant = "v1" THEN row_from_app_v1_hosts(app) ELSE hosts_list(app)

\* the value at meta.next is missing, not reachable through mappings, or falsy
CursorEnds(page) ==
  ~(/\ IsDict(page)
    /\ HasKey(page, "meta")
    /\ IsDict(Item(page, "meta"))
    /\ HasKey(Item(page, "meta"), "next")
    /\ Item(Item(page, "meta"), "next")
         \notin {Null, Num(0), Str(<<>>), List(<<>>), Map(<<>>)})

\* the order of container keys and of name keys the specification states
SpecContainerKeys == <<"data", "items", "result", "private_apps", "applications">>

SpecNameKeys == <<"app_name", "name", "application_name", "display_name", "label">>

SpecContainer(page) ==
  FirstMatch([n \in DOMAIN SpecContainerKeys |->
                /\ HasKey(page, SpecContainerKeys[n])
                /\ IsList(Item(page, SpecContainerKeys[n]))])

SpecName(app) ==
  LET k == FirstMatch([n \in DOMAIN SpecNameKeys |->
                         /\ HasKey(app, SpecNameKeys[n])
                         /\ IsStr(Item(app, SpecNameKeys[n]))
                         /\ Item(app, SpecNameKeys[n])[2] # <<>>
                         /\ strip(Item(app, SpecNameKeys[n])[2]) # <<>>])
  IN  IF k = 0 THEN <<>> ELSE strip(join(<<" ">>, split(Item(app, SpecNameKeys[k])[2])))

\* C1: the page of the end-to-end example projects to exactly two rows, in
\* order: App One with hosts h1.example.com and no id, then App Two with
\* hosts h2.example.com and no id; no other string of a record is a host.
C1_EndToEndRows ==
  (variant \in {"v1", "v2"} /\ Projected /\ pages = <<EndToEndPage>>)
    => rows = <<[name |-> AppOne, hosts |-> H1, id |-> <<>>],
                [name |-> AppTwo, hosts |-> H2, id |-> <<>>]>>

\* C2: locating the records of any page and projecting every located element
\* never raises.
C2_StagesTotal == exception \notin {"AttributeError", "TypeError"}

\* C3: for a page that is a top-level sequence the record locator returns
\* exactly the page's mapping elements, in order, and drops the others.
C3_ListPageKeepsOnlyMappings ==
  (Located /\ Len(pages) = 1 /\ IsList(pages[1]) /\ variant \in {"v1", "v2"})
    => items = SelectSeq(pages[1][2], IsDict)

\* C6: on a mapping page the record locator returns the value of the first
\* key, in the order data, items, result, private_apps, applications, whose
\* value is a sequence (also when that sequence is empty).
C6_KnownKeyPrecedence ==
  (Located /\ Len(pages) = 1 /\ IsDict(pages[1]) /\ SpecContainer(pages[1]) # 0)
    => items = Item(pages[1], SpecContainerKeys[SpecContainer(pages[1])])[2]

\* C9: the projected name is the whitespace-normalized value of the first key,
\* in the order app_name, name, application_name, display_name, label, that
\* holds a non-empty string, and the empty string when there is none.
C9_NamePrecedence ==
  (variant \in {"v1", "v2"} /\ Projected)
    => \A i \in DOMAIN items : IsDict(items[i]) => rows[i].name = SpecName(items[i])

\* C10: on a mapping page where no known container key holds a sequence, the
\* record locator returns the first value that is a non-empty sequence whose
\* first element is a mapping, only that value, and nothing when none is.
C10_FallbackFirstListOfMappings ==
  (Located /\ Len(pages) = 1 /\ IsDict(pages[1]) /\ SpecContainer(pages[1]) = 0)
    => LET vals == Values(pages[1])
           f == FirstMatch([i \in DOMAIN vals |-> IsListOfDicts(vals[i])])
       IN  items = IF f = 0 THEN <<>> ELSE vals[f][2]

\* C4: with pagination configured the fetch loop stops right after the first
\* page whose cursor path resolves to an empty, falsy or absent value: no
\* fetch follows such a page, the loop ends only on such a page, and the pages
\* returned are the pages served, in fetch order.
C4_StopsAtFirstEmptyCursor ==
  (variant = "v2" /\ ~pagination_unset /\ exception # "HTTPError")
    => /\ pages = [n \in 1..fetches |-> Response(n).body]
       /\ \A n \in 1..(fetches - 1) : ~CursorEnds(Response(n).body)
       /\ pc # "start" => CursorEnds(Response(fetches).body)
       /\ (pc = "start" /\ fetches >= 1) => ~CursorEnds(Response(fetches).body)

\* three pages served, the third with an empty cursor: three fetches were made
C4_Witness ==
  /\ variant = "v2"
  /\ ~pagination_unset
  /\ pc = "fetched"
  /\ Len(server) = 3
  /\ HasKey(server[3].body, "meta")
  /\ Item(server[3].body, "meta") = Map(<<E("next", Str(<<>>))>>)
  /\ fetches = 3
  /\ Len(pages) = 3

\* C5: once a page fetch has returned a status of 400 or more the run has
\* ended with the HTTP error: no record is located or projected and neither
\* the CSV nor the raw JSON file is written.
C5_FailedFetchIsFatal ==
  (\E n \in 1..fetches : Response(n).status >= 400)
    => /\ pc = "error"
       /\ exception = "HTTPError"
       /\ items = <<>>
       /\ rows = <<>>
       /\ csv = <<>>
       /\ raw_json = <<>>

\* a later fetch failed after pages had been fetched, with --raw-json given
C5_Witness ==
  /\ exception = "HTTPError"
  /\ args.raw_json
  /\ fetches >= 2
  /\ Len(pages) = fetches - 1
  /\ Response(fetches).status = 404

C8_HostsSortedNormalized ==
  (variant \in {"v1", "v2"} /\ Projected)
    => \A i \in DOMAIN items :
         LET hl == locals[i].hosts_list
         IN  /\ \A j \in 1..(Len(hl) - 1) : StrLess(hl[j], hl[j + 1])
             /\ \A j \in DOMAIN hl : IsNormalized(hl[j])
             /\ hl = HostsOf(Reversed(items[i]))
             /\ rows[i].hosts = join(<<",", " ">>, hl)

\* two hosts, one of them collapsed from "a  B", the upper-case one first
C8_Witness ==
  /\ variant \in {"v1", "v2"}
  /\ Projected
  /\ \E i \in DOMAIN items :
       /\ IsDict(items[i])
       /\ <<"a", " ", " ", "B">> \in StringValues(items[i])
       /\ locals[i].hosts_list = << <<"B">>, <<"a", " ", "B">> >>

====
